---- MODULE Spec2Model ----
(***************************************************************************)
(* A model of src/src/image_sorter.py (class ImageSorter): the scanner     *)
(* (process_directory), the classifier (determine_destination_path,        *)
(* determine_size_folder, get_shape_label) and the transfer engine         *)
(* (process_queue, copy_file, get_unique_filename, graceful_shutdown).     *)
(*                                                                         *)
(* Paths are sequences of components; a file name is kept as the pair      *)
(* os.path.splitext gives (base, extension), both strings.                 *)
(***************************************************************************)
EXTENDS Integers, Sequences, FiniteSets, TLC

VARIABLES
    config,           \* the configuration values __init__ loads
    image,            \* SpecClassify, SpecShape: the metadata handed to the classifier
    folder,           \* SpecClassify, SpecShape: the folder or label the classifier returned
    disk,             \* the input tree's state: unreadable directories, metadata, link
    stack,            \* process_directory's recursion: one frame per open directory
    sort_queue,       \* self.sort_queue
    error_count,      \* self.error_count
    processed_count,  \* self.processed_count
    mainpc,           \* where the main thread is
    enqueued,         \* the work queue as process_queue received it (history)
    futures,          \* per work item: the worker's position in copy_file and its locals
    pending,          \* the executor's work queue: submitted items not yet started
    sources,          \* the source files that exist at transfer time
    dirs,             \* the destination folders that exist
    files,            \* the destination files that exist
    signalled,        \* a shutdown signal was delivered
    faults            \* the failures of os.makedirs and shutil.copy2 still to come (bounds the run)

vars == <<config, image, folder, disk, stack, sort_queue, error_count,
          processed_count, mainpc, enqueued, futures, pending, sources, dirs,
          files, signalled, faults>>

----------------------------------------------------------------------------
(* Bounds of the model *)

\* widths and heights are drawn from 0..MaxDim
MaxDim == 4
\* DPI values and years are drawn from -1..MaxLevel, thresholds too
MaxLevel == 2

----------------------------------------------------------------------------
(* Configuration: __init__ *)

\* the defaults of config.get(...)
large_pixel_threshold_default == 1000
xl_pixel_threshold_default == 2000
quality_dpi_threshold_default == 300
min_modification_year_default == 2016

\* self.folder_names after the setdefault calls
folder_names ==
    [small |-> "Small", large |-> "Large", xlarge |-> "XLarge",
     standard |-> "Standard", best_quality |-> "Best Quality", errors |-> "Errors"]

\* self.input_directory and self.destination_directory, as absolute paths
input_directory == <<"in">>
destination_directory == <<"dst">>

DefaultConfig ==
    [large_pixel_threshold |-> large_pixel_threshold_default,
     xl_pixel_threshold |-> xl_pixel_threshold_default,
     quality_dpi_threshold |-> quality_dpi_threshold_default,
     min_modification_year |-> min_modification_year_default,
     keep_directory_structure |-> FALSE,
     sort_with_image_shape |-> TRUE,
     max_workers |-> 1,
     batch_size |-> 1]

----------------------------------------------------------------------------
(* The classifier's pure functions *)

\* a mutant of BestQuality: the DPI has to exceed the threshold (> for >=)
BestQuality_StrictDpi(width, height, dpi, mod_year) ==
    /\ width > config.xl_pixel_threshold
    /\ height > config.xl_pixel_threshold
    /\ dpi # 0
    /\ dpi > config.quality_dpi_threshold
    /\ mod_year # 0
    /\ mod_year >= config.min_modification_year

\* the condition of the "Best quality image" branch; `dpi and ...` and
\* `mod_year and ...` are Python truthiness tests: 0 is false
BestQuality(width, height, dpi, mod_year) ==
    /\ width > config.xl_pixel_threshold
    /\ height > config.xl_pixel_threshold
    /\ dpi # 0
    /\ dpi >= config.quality_dpi_threshold
    /\ mod_year # 0
    /\ mod_year >= config.min_modification_year

\* a mutant of SizeTier: the lower bound is inclusive (<=), so threshold-exact
\* dimensions are small
SizeTier_InclusiveSmall(width, height, dpi, mod_year) ==
    IF width <= config.large_pixel_threshold /\ height <= config.large_pixel_threshold
    THEN "small"
    ELSE IF BestQuality(width, height, dpi, mod_year) THEN "best_quality"
    ELSE IF width > config.xl_pixel_threshold /\ height > config.xl_pixel_threshold
    THEN "xlarge"
    ELSE IF width > config.large_pixel_threshold /\ height > config.large_pixel_threshold
    THEN "large"
    ELSE "standard"

\* the if/elif chain of determine_size_folder: the key of folder_names it picks
SizeTier(width, height, dpi, mod_year) ==
    IF width < config.large_pixel_threshold /\ height < config.large_pixel_threshold
    THEN "small"
    ELSE IF BestQuality(width, height, dpi, mod_year) THEN "best_quality"
    ELSE IF width > config.xl_pixel_threshold /\ height > config.xl_pixel_threshold
    THEN "xlarge"
    ELSE IF width > config.large_pixel_threshold /\ height > config.large_pixel_threshold
    THEN "large"
    ELSE "standard"

\* determine_size_folder: base_folder += "/" + folder_names[tier]
determine_size_folder(base_folder, width, height, dpi, mod_year) ==
    Append(base_folder, folder_names[SizeTier(width, height, dpi, mod_year)])

\* get_shape_label for height # 0. aspect_ratio = width / height is compared
\* with 0.9, 1.1, 2 and 0.5; the comparisons are done here on integers
\* (10 * width against 9 * height, ...), which agrees with the floating-point
\* comparison for every image size a file can have. The dictionary is walked
\* in insertion order: square, landscape, portrait.
get_shape_label(width, height) ==
    IF 9 * height <= 10 * width /\ 10 * width <= 11 * height THEN "square"
    ELSE IF 11 * height <= 10 * width /\ width <= 2 * height THEN "landscape"
    ELSE IF height <= 2 * width /\ 10 * width <= 9 * height THEN "portrait"
    ELSE "Banner"

----------------------------------------------------------------------------
(* SpecClassify: determine_size_folder applied to every image and every     *)
(* configuration of thresholds within the bounds                            *)

Dims == 0..MaxDim
Levels == -1..MaxLevel
PixelThresholds == 0..(MaxLevel + 1)

Images == [width : Dims, height : Dims, dpi : Levels, mod_year : Levels]

NoFolder == <<>>

InitClassify ==
    /\ \E l \in PixelThresholds, x \in PixelThresholds, q \in Levels, y \in Levels :
          config = [DefaultConfig EXCEPT !.large_pixel_threshold = l,
                                         !.xl_pixel_threshold = x,
                                         !.quality_dpi_threshold = q,
                                         !.min_modification_year = y]
    /\ image \in Images
    /\ folder = NoFolder
    /\ disk = [unreadable |-> {}, meta |-> <<>>, link |-> FALSE]
    /\ stack = <<>>
    /\ sort_queue = <<>>
    /\ error_count = 0
    /\ processed_count = 0
    /\ mainpc = "classify"
    /\ enqueued = <<>>
    /\ futures = <<>>
    /\ pending = <<>>
    /\ sources = {}
    /\ dirs = {}
    /\ files = {}
    /\ signalled = FALSE
    /\ faults = 0

\* one call of determine_size_folder(self.destination_directory, ...)
Classify ==
    /\ mainpc = "classify"
    /\ folder = NoFolder
    /\ folder' = determine_size_folder(destination_directory, image.width,
                                       image.height, image.dpi, image.mod_year)
    /\ mainpc' = "classified"
    /\ UNCHANGED <<config, image, disk, stack, sort_queue, error_count,
                   processed_count, enqueued, futures, pending, sources, dirs,
                   files, signalled, faults>>

NextClassify == Classify

SpecClassify == InitClassify /\ [][NextClassify]_vars

\* the size tier's folder name of the classified image
Tier == folder[Len(folder)]

\* the largest width and height given to get_shape_label: the ratios 9/10
\* and 11/10 of the range ends need 10 and 11
MaxShapeDim == 11

PositiveDims == 1..MaxShapeDim

\* the state before a call of get_shape_label with a positive width and height
InitShape ==
    /\ config = DefaultConfig
    /\ \E w \in PositiveDims, h \in PositiveDims :
          image = [width |-> w, height |-> h, dpi |-> 0, mod_year |-> 0]
    /\ folder = NoFolder
    /\ disk = [unreadable |-> {}, meta |-> <<>>, link |-> FALSE]
    /\ stack = <<>>
    /\ sort_queue = <<>>
    /\ error_count = 0
    /\ processed_count = 0
    /\ mainpc = "shape"
    /\ enqueued = <<>>
    /\ futures = <<>>
    /\ pending = <<>>
    /\ sources = {}
    /\ dirs = {}
    /\ files = {}
    /\ signalled = FALSE
    /\ faults = 0

\* one call of get_shape_label(width, height)
ShapeLabel ==
    /\ mainpc = "shape"
    /\ folder' = <<get_shape_label(image.width, image.height)>>
    /\ mainpc' = "labelled"
    /\ UNCHANGED <<config, image, disk, stack, sort_queue, error_count,
                   processed_count, enqueued, futures, pending, sources, dirs,
                   files, signalled, faults>>

NextShape == ShapeLabel

SpecShape == InitShape /\ [][NextShape]_vars

----------------------------------------------------------------------------
(* The input tree the scanner walks                                         *)

File(base, ext) == [kind |-> "file", base |-> base, ext |-> ext, target |-> <<>>]
Dir(name) == [kind |-> "dir", base |-> name, ext |-> "", target |-> <<>>]
Link(name, target) == [kind |-> "link", base |-> name, ext |-> "", target |-> target]

\* a directory that is not under input_directory
outside_directory == <<"out">>

\* os.scandir(directory) of a readable directory, by its physical path: the
\* input root holds two files, a subdirectory and (when disk.link) a symbolic
\* link to outside_directory
Listing(phys) ==
    IF phys = input_directory
    THEN {File("a", ".jpg"), File("notes", ".txt"), Dir("sub")}
            \cup (IF disk.link THEN {Link("link", outside_directory)} ELSE {})
    ELSE IF phys = Append(input_directory, "sub")
    THEN {File("a", ".jpg"), File("b", ".PNG")}
    ELSE IF phys = outside_directory
    THEN {File("secret", ".jpg")}
    ELSE {}

PhysDirs == {input_directory, Append(input_directory, "sub"), outside_directory}

\* dir_item.name
EntryName(e) == e.base \o e.ext

\* the physical location a lexical path names: symbolic links are followed
RECURSIVE RealPath(_)
RealPath(path) ==
    IF Len(path) <= 1 THEN path
    ELSE LET parent == RealPath(SubSeq(path, 1, Len(path) - 1))
             name == path[Len(path)]
             links == {e \in Listing(parent) : e.kind = "link" /\ EntryName(e) = name}
         IN  IF links # {} THEN (CHOOSE e \in links : TRUE).target
             ELSE Append(parent, name)

\* the physical file an image path names
RealFile(image_path) ==
    [dir |-> RealPath(image_path.dir), base |-> image_path.base, ext |-> image_path.ext]

\* what Image.open and os.path.getmtime give for a file
Ok(width, height, dpi, mod_year) ==
    [kind |-> "ok", width |-> width, height |-> height, dpi |-> dpi, mod_year |-> mod_year]
Raises(exception) ==
    [kind |-> exception, width |-> 0, height |-> 0, dpi |-> 0, mod_year |-> 0]

Small500 == Ok(500, 500, 72, 2020)
Best3000 == Ok(3000, 3000, 350, 2020)
ZeroHeight == Ok(500, 0, 72, 2020)

Outcomes ==
    {Small500, Best3000, ZeroHeight, Raises("UnidentifiedImageError"),
     Raises("PermissionError"), Raises("FileNotFoundError")}

\* the image files of the tree and the outcomes drawn for each
RootA == [dir |-> input_directory, base |-> "a", ext |-> ".jpg"]
SubA == [dir |-> Append(input_directory, "sub"), base |-> "a", ext |-> ".jpg"]
SubB == [dir |-> Append(input_directory, "sub"), base |-> "b", ext |-> ".PNG"]
Secret == [dir |-> outside_directory, base |-> "secret", ext |-> ".jpg"]

MetaChoices ==
    {m \in [{RootA, SubA, SubB, Secret} -> Outcomes] :
        /\ m[SubA] \in {Small500, ZeroHeight, Raises("UnidentifiedImageError")}
        /\ m[SubB] = Best3000
        /\ m[Secret] \in {Small500, Raises("PermissionError")}}

----------------------------------------------------------------------------
(* The scanner: process_directory, process_image_file                       *)

\* filename.lower() on the extension
Lower(ext) ==
    CASE ext = ".PNG" -> ".png"
      [] ext = ".JPG" -> ".jpg"
      [] OTHER -> ext

supported_extensions == {".jpg", ".jpeg", ".png", ".heic", ".webp"}

\* is_supported_image
is_supported_image(e) == Lower(e.ext) \in supported_extensions

\* os.path.commonpath([a, b]): the longest common prefix of components
RECURSIVE CommonPath(_, _)
CommonPath(a, b) ==
    IF a = <<>> \/ b = <<>> \/ Head(a) # Head(b) THEN <<>>
    ELSE <<Head(a)>> \o CommonPath(Tail(a), Tail(b))

\* is_within_input_directory: a lexical test on the path as given
is_within_input_directory(path) ==
    CommonPath(input_directory, path) = input_directory

\* dir_item.is_dir() and dir_item.is_file(): both follow symbolic links, and
\* every link of the tree points to a directory
is_dir(e) == e.kind \in {"dir", "link"}
is_file(e) == e.kind = "file"

\* os.path.relpath(dirname, self.input_directory) for a dirname under it
RelPath(dirname) == SubSeq(dirname, Len(input_directory) + 1, Len(dirname))

\* a mutant of ErrorsFolder: the errors folder is put under the base folder
ErrorsFolder_UnderBase(baseDestinationFolder) ==
    Append(baseDestinationFolder, folder_names.errors)

\* os.path.join(self.destination_directory, self.folder_names["errors"]), the
\* value of every except branch of determine_destination_path
ErrorsFolder(baseDestinationFolder) ==
    Append(destination_directory, folder_names.errors)

\* determine_destination_path: the folder returned and the number added to
\* error_count. width / height raises ZeroDivisionError in get_shape_label
\* when height is 0, which `except Exception` catches.
determine_destination_path(image_path, baseDestinationFolder) ==
    LET m == disk.meta[RealFile(image_path)]
        sized == determine_size_folder(baseDestinationFolder, m.width, m.height,
                                       m.dpi, m.mod_year)
    IN  IF m.kind # "ok"
        THEN [folder |-> ErrorsFolder(baseDestinationFolder), errors |-> 1]
        ELSE IF ~config.sort_with_image_shape
        THEN [folder |-> sized, errors |-> 0]
        ELSE IF m.height = 0
        THEN [folder |-> ErrorsFolder(baseDestinationFolder), errors |-> 1]
        ELSE [folder |-> Append(sized, get_shape_label(m.width, m.height)),
              errors |-> 0]

\* process_image_file up to the enqueue: the base folder it hands over
BaseFolder(image_path) ==
    IF config.keep_directory_structure
    THEN destination_directory \o RelPath(image_path.dir)
    ELSE destination_directory

Frame(directory) ==
    [dir |-> directory, todo |-> Listing(RealPath(directory))]

Top == stack[Len(stack)]
ItemPath(e) == Append(Top.dir, EntryName(e))
\* the stack with entry e taken off the open directory's iterator
Taken(e) == [stack EXCEPT ![Len(stack)].todo = @ \ {e}]

InitScan ==
    /\ \E keep \in BOOLEAN, shape \in BOOLEAN :
          config = [DefaultConfig EXCEPT !.keep_directory_structure = keep,
                                         !.sort_with_image_shape = shape]
    /\ \E u \in SUBSET PhysDirs, l \in BOOLEAN, m \in MetaChoices :
          disk = [unreadable |-> u, meta |-> m, link |-> l]
    /\ image = Small500
    /\ folder = NoFolder
    /\ stack = <<>>
    /\ sort_queue = <<>>
    /\ error_count = 0
    /\ processed_count = 0
    /\ mainpc = "run"
    /\ enqueued = <<>>
    /\ futures = <<>>
    /\ pending = <<>>
    /\ sources = {}
    /\ dirs = {}
    /\ files = {}
    /\ signalled = FALSE
    /\ faults = 0

\* run: self.process_directory(self.input_directory); os.scandir raises for an
\* unreadable directory, which is counted and ends the call
ScanStart ==
    /\ mainpc = "run"
    /\ is_within_input_directory(input_directory)
    /\ IF RealPath(input_directory) \in disk.unreadable
       THEN /\ error_count' = error_count + 1
            /\ mainpc' = "scanned"
            /\ UNCHANGED stack
       ELSE /\ stack' = <<Frame(input_directory)>>
            /\ mainpc' = "scanning"
            /\ UNCHANGED error_count
    /\ UNCHANGED <<config, image, folder, disk, sort_queue, processed_count,
                   enqueued, futures, pending, sources, dirs, files, signalled,
                   faults>>

\* the loop body for a directory entry that can be read: the recursive call
EnterDirectory(e) ==
    /\ mainpc = "scanning"
    /\ e \in Top.todo
    /\ is_within_input_directory(ItemPath(e))
    /\ is_dir(e)
    /\ RealPath(ItemPath(e)) \notin disk.unreadable
    /\ stack' = Append(Taken(e), Frame(ItemPath(e)))
    /\ UNCHANGED <<config, image, folder, disk, sort_queue, error_count,
                   processed_count, mainpc, enqueued, futures, pending, sources,
                   dirs, files, signalled, faults>>

\* a mutant of DirectoryError: the failure also ends the caller's loop
DirectoryError_EndsLoop(e) ==
    /\ mainpc = "scanning"
    /\ e \in Top.todo
    /\ is_within_input_directory(ItemPath(e))
    /\ is_dir(e)
    /\ RealPath(ItemPath(e)) \in disk.unreadable
    /\ stack' = [stack EXCEPT ![Len(stack)].todo = {}]
    /\ error_count' = error_count + 1
    /\ UNCHANGED <<config, image, folder, disk, sort_queue, processed_count,
                   mainpc, enqueued, futures, pending, sources, dirs, files,
                   signalled, faults>>

\* the recursive call for a directory os.scandir cannot read: the except
\* branches of the callee count the error and the caller's loop goes on
DirectoryError(e) ==
    /\ mainpc = "scanning"
    /\ e \in Top.todo
    /\ is_within_input_directory(ItemPath(e))
    /\ is_dir(e)
    /\ RealPath(ItemPath(e)) \in disk.unreadable
    /\ stack' = Taken(e)
    /\ error_count' = error_count + 1
    /\ UNCHANGED <<config, image, folder, disk, sort_queue, processed_count,
                   mainpc, enqueued, futures, pending, sources, dirs, files,
                   signalled, faults>>

\* process_image_file for a supported image: classify and enqueue
ProcessImageFile(e) ==
    /\ mainpc = "scanning"
    /\ e \in Top.todo
    /\ is_within_input_directory(ItemPath(e))
    /\ ~is_dir(e)
    /\ is_file(e) /\ is_supported_image(e)
    /\ LET image_path == [dir |-> Top.dir, base |-> e.base, ext |-> e.ext]
           d == determine_destination_path(image_path, BaseFolder(image_path))
       IN  /\ sort_queue' = Append(sort_queue,
                  [image_path |-> image_path, destination_folder |-> d.folder])
           /\ error_count' = error_count + d.errors
    /\ stack' = Taken(e)
    /\ UNCHANGED <<config, image, folder, disk, processed_count, mainpc,
                   enqueued, futures, pending, sources, dirs, files, signalled,
                   faults>>

\* an entry that is outside the input directory (logged), or neither a
\* directory nor a supported image
SkipEntry(e) ==
    /\ mainpc = "scanning"
    /\ e \in Top.todo
    /\ \/ ~is_within_input_directory(ItemPath(e))
       \/ ~is_dir(e) /\ ~(is_file(e) /\ is_supported_image(e))
    /\ stack' = Taken(e)
    /\ UNCHANGED <<config, image, folder, disk, sort_queue, error_count,
                   processed_count, mainpc, enqueued, futures, pending, sources,
                   dirs, files, signalled, faults>>

\* the for loop of process_directory is exhausted: the call returns
ReturnFromDirectory ==
    /\ mainpc = "scanning"
    /\ Top.todo = {}
    /\ stack' = SubSeq(stack, 1, Len(stack) - 1)
    /\ mainpc' = IF Len(stack) = 1 THEN "scanned" ELSE "scanning"
    /\ UNCHANGED <<config, image, folder, disk, sort_queue, error_count,
                   processed_count, enqueued, futures, pending, sources, dirs,
                   files, signalled, faults>>

Entries == UNION {Listing(d) : d \in PhysDirs}

NextScan ==
    \/ ScanStart
    \/ \E e \in Entries : EnterDirectory(e)
    \/ \E e \in Entries : DirectoryError(e)
    \/ \E e \in Entries : ProcessImageFile(e)
    \/ \E e \in Entries : SkipEntry(e)
    \/ ReturnFromDirectory

SpecScan == InitScan /\ [][NextScan]_vars

----------------------------------------------------------------------------
(* The transfer engine: process_queue, copy_file, get_unique_filename,      *)
(* graceful_shutdown                                                        *)

\* copy_file's constants
retries == 5
max_delay == 16
initial_delay == 1

Min(a, b) == IF a < b THEN a ELSE b
Max(a, b) == IF a > b THEN a ELSE b

\* the index a Python slice bound n stands for in a list of length len
SliceIndex(n, len) == IF n < 0 THEN Max(len + n, 0) ELSE Min(n, len)

\* a mutant of Batch: the slice is one item short
Batch_OneShort(queue) == SubSeq(queue, 1, SliceIndex(config.batch_size, Len(queue)) - 1)

\* self.sort_queue[: self.batch_size]
Batch(queue) == SubSeq(queue, 1, SliceIndex(config.batch_size, Len(queue)))

\* self.sort_queue[self.batch_size :]
Rest(queue) == SubSeq(queue, SliceIndex(config.batch_size, Len(queue)) + 1, Len(queue))

\* the place of a work item in the queue process_queue received
IdOf(item) == CHOOSE i \in 1..Len(enqueued) : enqueued[i] = item

Ids == 1..Len(enqueued)

\* os.path.basename(image_path), as the pair os.path.splitext gives
Basename(image_path) == [base |-> image_path.base, ext |-> image_path.ext]

\* a mutant of Suffixed: the suffix is one more than the counter
Suffixed_OneMore(filename, counter) ==
    [base |-> filename.base \o " (" \o ToString(counter + 1) \o ")", ext |-> filename.ext]

\* f"{base} ({counter}){extension}"
Suffixed(filename, counter) ==
    [base |-> filename.base \o " (" \o ToString(counter) \o ")", ext |-> filename.ext]

\* os.path.join(destination_folder, unique_filename)
Join(destination_folder, filename) == [folder |-> destination_folder, name |-> filename]

\* a future that was never submitted
NotSubmitted ==
    [pc |-> "none", unique_filename |-> [base |-> "", ext |-> ""], counter |-> 0,
     attempt |-> 0, delay |-> 0, tmp |-> 0, stage |-> "", result |-> "none",
     runs |-> 0, batch |-> 0, failed |-> 0, slept |-> 0]

\* executor.submit(self.copy_file, image_path, destination_folder)
Submitted(old, batch_number) ==
    [NotSubmitted EXCEPT !.pc = "submitted", !.runs = old.runs + 1,
                         !.batch = batch_number]

\* the futures whose copy_file is running
Running == {i \in Ids : futures[i].pc \notin {"none", "submitted", "done"}}

\* every future of the executor has finished
AllDone == pending = <<>> /\ Running = {}

\* the number of batches taken so far
BatchesTaken ==
    LET taken == {futures[i].batch : i \in Ids}
    IN  CHOOSE n \in taken \cup {0} : \A k \in taken : k <= n

\* a mutant of MayStartNextBatch: the next batch starts as soon as the
\* submitted items have all been picked up by a worker
MayStartNextBatch_NoBarrier == pending = <<>>

\* leaving the `with ThreadPoolExecutor` block: as_completed has yielded every
\* future and shutdown(wait=True) has joined the workers
MayStartNextBatch == AllDone

----------------------------------------------------------------------------
(* The main thread *)

\* one iteration of `while self.sort_queue`: the two slices and the submits
TakeBatch ==
    /\ mainpc = "process_queue"
    /\ sort_queue # <<>>
    /\ LET batch == Batch(sort_queue)
           ids == [k \in 1..Len(batch) |-> IdOf(batch[k])]
           number == BatchesTaken + 1
       IN  /\ futures' = [i \in Ids |->
                  IF \E k \in 1..Len(ids) : ids[k] = i
                  THEN Submitted(futures[i], number) ELSE futures[i]]
           /\ pending' = ids
    /\ sort_queue' = Rest(sort_queue)
    /\ mainpc' = "as_completed"
    /\ UNCHANGED <<config, image, folder, disk, stack, error_count,
                   processed_count, enqueued, sources, dirs, files, signalled,
                   faults>>

\* the end of the with block: the loop goes back to its test
BatchDone ==
    /\ mainpc = "as_completed"
    /\ MayStartNextBatch
    /\ mainpc' = "process_queue"
    /\ UNCHANGED <<config, image, folder, disk, stack, sort_queue, error_count,
                   processed_count, enqueued, futures, pending, sources, dirs,
                   files, signalled, faults>>

\* `while self.sort_queue` finds the queue empty: process_queue returns
Return ==
    /\ mainpc = "process_queue"
    /\ sort_queue = <<>>
    /\ mainpc' = "done"
    /\ UNCHANGED <<config, image, folder, disk, stack, sort_queue, error_count,
                   processed_count, enqueued, futures, pending, sources, dirs,
                   files, signalled, faults>>

\* graceful_shutdown: sys.exit(0) raises SystemExit in the main thread. Between
\* two batches nothing is left to unwind and the process exits; inside the
\* with block the exception first runs ThreadPoolExecutor.__exit__, which is
\* shutdown(wait=True).
Signal ==
    /\ mainpc \in {"process_queue", "as_completed"}
    /\ ~signalled
    /\ signalled' = TRUE
    /\ mainpc' = IF mainpc = "process_queue" THEN "exited" ELSE "shutdown"
    /\ UNCHANGED <<config, image, folder, disk, stack, sort_queue, error_count,
                   processed_count, enqueued, futures, pending, sources, dirs,
                   files, faults>>

\* shutdown(wait=True) returns once every worker thread has ended, which is
\* after every submitted item has run; SystemExit then ends the process
Exit ==
    /\ mainpc = "shutdown"
    /\ AllDone
    /\ mainpc' = "exited"
    /\ UNCHANGED <<config, image, folder, disk, stack, sort_queue, error_count,
                   processed_count, enqueued, futures, pending, sources, dirs,
                   files, signalled, faults>>

----------------------------------------------------------------------------
(* A worker thread running copy_file for the work item of future i *)

Item(i) == enqueued[i]

\* a mutant of isfile: the source is taken to exist
isfile_Always(image_path) == TRUE

\* os.path.isfile(image_path)
isfile(image_path) == image_path \in sources

\* a worker takes the oldest submitted item; at most max_workers run at once.
\* copy_file starts: os.path.isfile(image_path), then os.path.isdir
StartCopy(i) ==
    /\ mainpc \in {"as_completed", "shutdown"}
    /\ pending # <<>> /\ Head(pending) = i
    /\ Cardinality(Running) < config.max_workers
    /\ pending' = Tail(pending)
    /\ futures' = [futures EXCEPT ![i] =
          IF ~isfile(Item(i).image_path)
          THEN [@ EXCEPT !.pc = "done", !.result = "False"]
          ELSE [@ EXCEPT !.pc = IF Item(i).destination_folder \in dirs
                                THEN "unique" ELSE "makedirs",
                         !.unique_filename = Basename(Item(i).image_path),
                         !.counter = 1,
                         !.delay = initial_delay]]
    /\ UNCHANGED <<config, image, folder, disk, stack, sort_queue, error_count,
                   processed_count, mainpc, enqueued, sources, dirs, files,
                   signalled, faults>>

\* os.makedirs(destination_folder, exist_ok=True) succeeds
MakeDirs(i) ==
    /\ futures[i].pc = "makedirs"
    /\ dirs' = dirs \cup {Item(i).destination_folder}
    /\ futures' = [futures EXCEPT ![i].pc = "unique"]
    /\ UNCHANGED <<config, image, folder, disk, stack, sort_queue, error_count,
                   processed_count, mainpc, enqueued, pending, sources, files,
                   signalled, faults>>

\* os.makedirs raises: the except branch reads error_count for its += 1
MakeDirsFails(i) ==
    /\ futures[i].pc = "makedirs"
    /\ faults > 0
    /\ faults' = faults - 1
    /\ futures' = [futures EXCEPT ![i].pc = "error_store", ![i].tmp = error_count,
                                  ![i].stage = "makedirs"]
    /\ UNCHANGED <<config, image, folder, disk, stack, sort_queue, error_count,
                   processed_count, mainpc, enqueued, pending, sources, dirs,
                   files, signalled>>

\* one test of get_unique_filename's while loop
UniqueCheck(i) ==
    /\ futures[i].pc = "unique"
    /\ futures' = [futures EXCEPT ![i] =
          IF Join(Item(i).destination_folder, futures[i].unique_filename) \in files
          THEN [@ EXCEPT !.unique_filename =
                            Suffixed(Basename(Item(i).image_path), futures[i].counter),
                         !.counter = @ + 1]
          ELSE [@ EXCEPT !.pc = "copy"]]
    /\ UNCHANGED <<config, image, folder, disk, stack, sort_queue, error_count,
                   processed_count, mainpc, enqueued, pending, sources, dirs,
                   files, signalled, faults>>

\* shutil.copy2 succeeds: the destination file is written, and processed_count
\* is read for its += 1
CopySucceeds(i) ==
    /\ futures[i].pc = "copy"
    /\ files' = files \cup {Join(Item(i).destination_folder, futures[i].unique_filename)}
    /\ futures' = [futures EXCEPT ![i].pc = "processed_store",
                                  ![i].tmp = processed_count]
    /\ UNCHANGED <<config, image, folder, disk, stack, sort_queue, error_count,
                   processed_count, mainpc, enqueued, pending, sources, dirs,
                   signalled, faults>>

\* shutil.copy2 raises, before or after it created the destination file
\* (copy2 copies the content, then the metadata); error_count is read for
\* its += 1
CopyFails(i, created) ==
    /\ futures[i].pc = "copy"
    /\ faults > 0
    /\ faults' = faults - 1
    /\ files' = IF created
                THEN files \cup {Join(Item(i).destination_folder,
                                      futures[i].unique_filename)}
                ELSE files
    /\ futures' = [futures EXCEPT ![i].pc = "error_store", ![i].tmp = error_count,
                                  ![i].stage = "copy", ![i].failed = @ + 1]
    /\ UNCHANGED <<config, image, folder, disk, stack, sort_queue, error_count,
                   processed_count, mainpc, enqueued, pending, sources, dirs,
                   signalled>>

\* a mutant of Incremented: the counter is set, not incremented
Incremented_Set(value) == 1

\* the value `self.counter += 1` stores, from the value it read
Incremented(value) == value + 1

\* the store of self.processed_count += 1; copy_file returns True
StoreProcessed(i) ==
    /\ futures[i].pc = "processed_store"
    /\ processed_count' = Incremented(futures[i].tmp)
    /\ futures' = [futures EXCEPT ![i].pc = "done", ![i].result = "True"]
    /\ UNCHANGED <<config, image, folder, disk, stack, sort_queue, error_count,
                   mainpc, enqueued, pending, sources, dirs, files, signalled,
                   faults>>

\* a mutant of Abandoned: a failure of os.makedirs is retried like a copy
Abandoned_Never(stage) == FALSE

\* the except branches of os.makedirs end in `return False`, those of
\* shutil.copy2 do not
Abandoned(stage) == stage = "makedirs"

\* the store of self.error_count += 1. After os.makedirs failed copy_file
\* returns False; after a failed copy: attempt += 1, then time.sleep(delay)
StoreError(i) ==
    /\ futures[i].pc = "error_store"
    /\ error_count' = Incremented(futures[i].tmp)
    /\ futures' = [futures EXCEPT ![i] =
          IF Abandoned(@.stage)
          THEN [@ EXCEPT !.pc = "done", !.result = "False"]
          ELSE [@ EXCEPT !.pc = "sleep", !.attempt = @ + 1]]
    /\ UNCHANGED <<config, image, folder, disk, stack, sort_queue,
                   processed_count, mainpc, enqueued, pending, sources, dirs,
                   files, signalled, faults>>

\* a mutant of NextDelay: the delay triples
NextDelay_Tripled(delay) == Min(max_delay, delay * 3)

\* delay = min(max_delay, delay * 2)
NextDelay(delay) == Min(max_delay, delay * 2)

\* a mutant of LoopContinues: the loop runs once more
LoopContinues_OnceMore(attempt) == attempt <= retries

\* the test of `while attempt < retries`
LoopContinues(attempt) == attempt < retries

\* time.sleep(delay) returns; the delay doubles; `while attempt < retries`
\* either tries again or ends the loop, and copy_file returns False
Sleep(i) ==
    /\ futures[i].pc = "sleep"
    /\ futures' = [futures EXCEPT ![i] =
          [@ EXCEPT !.slept = @ + futures[i].delay,
                    !.delay = NextDelay(@),
                    !.pc = IF LoopContinues(futures[i].attempt) THEN "copy" ELSE "done",
                    !.result = IF LoopContinues(futures[i].attempt)
                               THEN "none" ELSE "False"]]
    /\ UNCHANGED <<config, image, folder, disk, stack, sort_queue, error_count,
                   processed_count, mainpc, enqueued, pending, sources, dirs,
                   files, signalled, faults>>

----------------------------------------------------------------------------
(* The specifications of the transfer phase *)

\* the most work items in the queue
MaxItems == 3
\* the largest batch_size
MaxBatch == 2
\* the largest max_workers
MaxWorkers == 2
\* the failures of os.makedirs and shutil.copy2 in a run with several workers
MaxFaults == 2

SmallSquare == <<"dst", "Small", "square">>
BestSquare == <<"dst", "Best Quality", "square">>

\* the k-th image file of the input tree: a.jpg of the root, a.jpg of sub,
\* a.jpg of sub/sub, ...
RECURSIVE Nested(_)
Nested(k) == IF k <= 1 THEN input_directory ELSE Append(Nested(k - 1), "sub")
PoolPath(k) == [dir |-> Nested(k), base |-> "a", ext |-> ".jpg"]

\* the queues process_queue is given: n images that all have the file name
\* a.jpg, classified into one folder or alternately into two
Queues ==
    {[k \in 1..n |->
        [image_path |-> PoolPath(k),
         destination_folder |-> IF mixed /\ k % 2 = 0 THEN BestSquare ELSE SmallSquare]] :
        n \in 1..MaxItems, mixed \in BOOLEAN}

\* the failures a run may see: with one worker enough for a work item to
\* use up its retries, with several workers MaxFaults
Budget(w) == IF w = 1 THEN retries ELSE MaxFaults

\* the state when run calls process_queue after a scan without errors. A
\* source file may have been deleted since the scan; the destination folder
\* may hold a.jpg from an earlier run.
InitTransferWith(workers, batch_sizes) ==
    /\ \E w \in workers, b \in batch_sizes :
          /\ config = [DefaultConfig EXCEPT !.max_workers = w, !.batch_size = b]
          /\ faults = Budget(w)
    /\ image = Small500
    /\ folder = NoFolder
    /\ disk = [unreadable |-> {}, meta |-> <<>>, link |-> FALSE]
    /\ stack = <<>>
    /\ sort_queue \in Queues
    /\ enqueued = sort_queue
    /\ error_count = 0
    /\ processed_count = 0
    /\ mainpc = "process_queue"
    /\ futures = [i \in 1..Len(sort_queue) |-> NotSubmitted]
    /\ pending = <<>>
    /\ \E missing \in SUBSET {PoolPath(1)} :
          sources = {sort_queue[i].image_path : i \in 1..Len(sort_queue)} \ missing
    /\ \E earlier \in BOOLEAN :
          /\ files = IF earlier THEN {Join(SmallSquare, Basename(PoolPath(1)))} ELSE {}
          /\ dirs = IF earlier THEN {SmallSquare} ELSE {}
    /\ signalled = FALSE

\* the same with a batch_size of at least one
InitTransfer(workers) == InitTransferWith(workers, 1..MaxBatch)

Init == InitTransfer(1..MaxWorkers)

Next ==
    \/ TakeBatch
    \/ BatchDone
    \/ Return
    \/ Signal
    \/ Exit
    \/ \E i \in Ids : StartCopy(i)
    \/ \E i \in Ids : MakeDirs(i)
    \/ \E i \in Ids : MakeDirsFails(i)
    \/ \E i \in Ids : UniqueCheck(i)
    \/ \E i \in Ids : CopySucceeds(i)
    \/ \E i \in Ids, created \in BOOLEAN : CopyFails(i, created)
    \/ \E i \in Ids : StoreProcessed(i)
    \/ \E i \in Ids : StoreError(i)
    \/ \E i \in Ids : Sleep(i)

\* the transfer phase with up to MaxWorkers workers
Spec == Init /\ [][Next]_vars

\* the transfer phase with one worker: the calls of copy_file do not overlap
InitSequential == InitTransfer({1})
SpecSequential == InitSequential /\ [][Next]_vars

\* the steps of the main thread and of the workers when no signal arrives
NextUndisturbed ==
    \/ TakeBatch
    \/ BatchDone
    \/ Return
    \/ \E i \in Ids : StartCopy(i)
    \/ \E i \in Ids : MakeDirs(i)
    \/ \E i \in Ids : MakeDirsFails(i)
    \/ \E i \in Ids : UniqueCheck(i)
    \/ \E i \in Ids : CopySucceeds(i)
    \/ \E i \in Ids, created \in BOOLEAN : CopyFails(i, created)
    \/ \E i \in Ids : StoreProcessed(i)
    \/ \E i \in Ids : StoreError(i)
    \/ \E i \in Ids : Sleep(i)

\* the batch sizes a configuration can give: batch_size is taken from the
\* configuration as it is, so that 0 and negative numbers are among them
BatchSizes == -1..MaxBatch

\* the transfer phase with one worker and any batch_size, without a signal.
\* The threads keep running: the main thread goes on when it can, and a
\* worker that has taken a work item runs copy_file to its return.
InitAnyBatch == InitTransferWith({1}, BatchSizes)
SpecAnyBatch ==
    InitAnyBatch /\ [][NextUndisturbed]_vars /\ WF_vars(NextUndisturbed)

\* the transfer phase with MaxWorkers workers and a batch_size that puts the
\* whole queue into one batch
InitOneBatch == InitTransferWith({MaxWorkers}, {MaxItems})
SpecOneBatch == InitOneBatch /\ [][Next]_vars

----------------------------------------------------------------------------
(* Helpers of the transfer claims *)

\* the work items whose copy_file returned True
Succeeded == {i \in Ids : futures[i].pc = "done" /\ futures[i].result = "True"}

\* the destination file copy_file wrote for work item i
DestinationPath(i) == Join(Item(i).destination_folder, futures[i].unique_filename)

\* the failures copy_file counted for work item i so far: the failed copy
\* attempts, and the failure of os.makedirs
Counted(i) ==
    IF futures[i].stage = "makedirs"
    THEN (IF futures[i].pc = "done" THEN 1 ELSE 0)
    ELSE IF futures[i].pc = "error_store" THEN futures[i].failed - 1
    ELSE futures[i].failed

RECURSIVE SumCounted(_)
SumCounted(n) == IF n = 0 THEN 0 ELSE SumCounted(n - 1) + Counted(n)

----------------------------------------------------------------------------
(* C1 *)

\* C1: under every interleaving of the workers, two work items with the same
\* file name and the same destination folder that both report success have
\* distinct destination files, so that the successful items of a finished
\* run wrote as many files as there are successful items
C1_NoOverwrite ==
    /\ \A i, j \in Succeeded :
          (/\ i # j
           /\ Basename(Item(i).image_path) = Basename(Item(j).image_path)
           /\ Item(i).destination_folder = Item(j).destination_folder)
              => DestinationPath(i) # DestinationPath(j)
    /\ mainpc = "done" =>
          Cardinality({DestinationPath(i) : i \in Succeeded}) = Cardinality(Succeeded)

----------------------------------------------------------------------------
(* C2 *)

\* C2: the increments of the counters are atomic: once process_queue has
\* returned, processed_count is the number of work items whose copy_file
\* returned success and error_count is the number of counted failures
C2_NoLostIncrement ==
    mainpc = "done" =>
        /\ processed_count = Cardinality(Succeeded)
        /\ error_count = SumCounted(Len(enqueued))

----------------------------------------------------------------------------
(* C3 *)

\* C3: after a shutdown signal during the transfer phase no further batch is
\* started, and the process ends without waiting for the batch in flight:
\* until it has ended, its exit is possible whatever the workers are doing
C3_PromptShutdown ==
    signalled =>
        /\ ~ENABLED TakeBatch
        /\ mainpc = "exited" \/ ENABLED Exit

----------------------------------------------------------------------------
(* C4 *)

\* C4: with copy_file calls that do not overlap, a work item whose copy
\* failed k times and then succeeded has k <= 4, reports success, and the
\* counters hold one processed file per successful item and one error per
\* failed attempt: for a single work item, processed_count = 1 and
\* error_count = k
C4_RetryThenSuccess ==
    /\ \A i \in Succeeded :
          /\ futures[i].failed = futures[i].attempt
          /\ futures[i].attempt \in 0..(retries - 1)
    /\ (\A i \in Ids : futures[i].pc \in {"none", "submitted", "done"}) =>
          /\ processed_count = Cardinality(Succeeded)
          /\ error_count = SumCounted(Len(enqueued))
    /\ (Len(enqueued) = 1 /\ Succeeded = {1}) =>
          /\ processed_count = 1
          /\ error_count = futures[1].attempt

\* a single work item copied on the fifth attempt: +1 and +4
C4_Witness ==
    /\ Len(enqueued) = 1
    /\ Succeeded = {1}
    /\ futures[1].failed = 4
    /\ processed_count = 1
    /\ error_count = 4
    /\ mainpc = "done"

----------------------------------------------------------------------------
(* C5 *)

\* C5: every enqueued source path resolves to a file physically under the
\* input root, also when a symbolic link inside the root points outside it
C5_NoFileOutsideRoot ==
    \A i \in 1..Len(sort_queue) :
        is_within_input_directory(RealFile(sort_queue[i].image_path).dir)

----------------------------------------------------------------------------
(* C6 *)

\* C6 as stated: an image whose width and height both equal large_threshold,
\* or both equal xlarge_threshold, is given the tier "standard"
C6_ThresholdExactIsStandard ==
    (/\ mainpc = "classified"
     /\ image.width = image.height
     /\ image.width \in {config.large_pixel_threshold, config.xl_pixel_threshold})
        => Tier = folder_names.standard

\* C6 amended: width = height = large_threshold gives "standard" whatever the
\* DPI and year when large_threshold <= xlarge_threshold; width = height =
\* xlarge_threshold gives "large" when xlarge_threshold > large_threshold (and
\* "standard" only when the two thresholds are equal)
C6_ThresholdExact ==
    mainpc = "classified" /\ image.width = image.height =>
        /\ (/\ image.width = config.large_pixel_threshold
            /\ config.large_pixel_threshold <= config.xl_pixel_threshold)
              => Tier = folder_names.standard
        /\ (/\ image.width = config.xl_pixel_threshold
            /\ config.xl_pixel_threshold > config.large_pixel_threshold)
              => Tier = folder_names.large

\* a classified image at the xlarge threshold, above the large threshold, with
\* a DPI and a year that meet the quality thresholds
C6_Witness ==
    /\ mainpc = "classified"
    /\ image.width = config.xl_pixel_threshold
    /\ image.height = config.xl_pixel_threshold
    /\ config.xl_pixel_threshold > config.large_pixel_threshold
    /\ image.dpi # 0 /\ image.dpi >= config.quality_dpi_threshold
    /\ image.mod_year # 0 /\ image.mod_year >= config.min_modification_year
    /\ Tier = folder_names.large

----------------------------------------------------------------------------
(* C7 *)

\* C7 as stated: width > xlarge_threshold, height > xlarge_threshold,
\* DPI >= quality_threshold and mod_year >= min_year give "best_quality"
C7_BestQualityAlways ==
    (/\ mainpc = "classified"
     /\ image.width > config.xl_pixel_threshold
     /\ image.height > config.xl_pixel_threshold
     /\ image.dpi >= config.quality_dpi_threshold
     /\ image.mod_year >= config.min_modification_year)
        => Tier = folder_names.best_quality

\* C7 amended: the same, provided the DPI and the year are not 0 and the
\* image is not below large_threshold in both dimensions
C7_BestQuality ==
    (/\ mainpc = "classified"
     /\ image.width > config.xl_pixel_threshold
     /\ image.height > config.xl_pixel_threshold
     /\ image.dpi >= config.quality_dpi_threshold
     /\ image.mod_year >= config.min_modification_year
     /\ image.dpi # 0
     /\ image.mod_year # 0
     /\ ~(/\ image.width < config.large_pixel_threshold
          /\ image.height < config.large_pixel_threshold))
        => Tier = folder_names.best_quality

\* an image classified best quality
C7_Witness ==
    /\ mainpc = "classified"
    /\ image.width > config.xl_pixel_threshold
    /\ image.height > config.xl_pixel_threshold
    /\ image.dpi >= config.quality_dpi_threshold
    /\ image.mod_year >= config.min_modification_year
    /\ Tier = folder_names.best_quality

----------------------------------------------------------------------------
(* C8 *)

\* reading the metadata of the file fails: Image.open or getmtime raises, or
\* the shape computation divides by a height of 0
MetadataFails(image_path) ==
    LET m == disk.meta[RealFile(image_path)]
    IN  m.kind # "ok" \/ (config.sort_with_image_shape /\ m.height = 0)

\* the supported image files the walk from a directory comes by, as lexical paths
RECURSIVE ScannedFiles(_)
ScannedFiles(directory) ==
    IF RealPath(directory) \in disk.unreadable THEN {}
    ELSE LET entries == Listing(RealPath(directory))
         IN  {[dir |-> directory, base |-> e.base, ext |-> e.ext] :
                 e \in {x \in entries : x.kind = "file" /\ Lower(x.ext) \in supported_extensions}}
             \cup UNION {ScannedFiles(Append(directory, EntryName(e))) :
                           e \in {x \in entries : x.kind # "file"}}

\* when the scan is over every scanned file has exactly one work item
C8_ExactlyOneItem ==
    mainpc = "scanned" =>
        /\ {sort_queue[i].image_path : i \in 1..Len(sort_queue)}
              = ScannedFiles(input_directory)
        /\ Len(sort_queue) = Cardinality(ScannedFiles(input_directory))

\* a step that changes the queue appends one item; when the metadata of its
\* file cannot be read the item goes to the errors folder directly under the
\* destination root and error_count grows by 1, and otherwise error_count is
\* unchanged
C8_EnqueueStep ==
    sort_queue' # sort_queue =>
        /\ Len(sort_queue') = Len(sort_queue) + 1
        /\ SubSeq(sort_queue', 1, Len(sort_queue)) = sort_queue
        /\ LET item == sort_queue'[Len(sort_queue')]
           IN  IF MetadataFails(item.image_path)
               THEN /\ item.destination_folder = <<"dst", "Errors">>
                    /\ error_count' = error_count + 1
               ELSE /\ item.destination_folder # <<"dst", "Errors">>
                    /\ error_count' = error_count

\* C8: classification is total and redirects on error: every scanned file
\* gets exactly one work item, and a file whose metadata cannot be read
\* (whatever the exception, a height of 0 included) is sent to the single
\* errors folder under the destination root, also with directory-structure
\* preservation on, with error_count incremented by exactly 1; the scan goes
\* on to the end
C8_TotalAndRedirects == [](C8_ExactlyOneItem) /\ [][C8_EnqueueStep]_vars

\* a finished scan with structure preservation and shape labels on, in which
\* the image of the subdirectory has height 0 and sits in the errors folder,
\* followed in the queue by another item
C8_Witness ==
    /\ mainpc = "scanned"
    /\ config.keep_directory_structure
    /\ config.sort_with_image_shape
    /\ \E i \in 1..Len(sort_queue) :
          /\ sort_queue[i].image_path = SubA
          /\ disk.meta[SubA] = ZeroHeight
          /\ sort_queue[i].destination_folder = <<"dst", "Errors">>
          /\ i < Len(sort_queue)
    /\ error_count >= 1

----------------------------------------------------------------------------
(* C9 *)

\* C9: no work item is handed to copy_file twice, and when process_queue
\* returns every work item of the queue has been handed to copy_file exactly
\* once and has returned, whatever items failed
C9_ExactlyOnce ==
    /\ \A i \in Ids : futures[i].runs <= 1
    /\ mainpc = "done" =>
          \A i \in Ids : futures[i].runs = 1 /\ futures[i].pc = "done"

\* a finished run in which the first item used up its retries and an item of
\* a later batch was copied
C9_Witness ==
    /\ mainpc = "done"
    /\ futures[1].result = "False"
    /\ futures[1].attempt = retries
    /\ \E i \in Succeeded : futures[i].batch > futures[1].batch

----------------------------------------------------------------------------
(* C10 *)

\* C10: batches are taken in enqueue order with a barrier between them: the
\* item at queue position p (from 0) belongs to batch p div batch_size, and
\* no item of a later batch is submitted or started before every copy_file
\* of the earlier batches has returned
C10_BatchBarrier ==
    \A i, j \in Ids :
        /\ futures[i].batch > 0 => futures[i].batch = ((i - 1) \div config.batch_size) + 1
        /\ (i < j /\ futures[j].batch > 0) => futures[i].batch > 0
        /\ (futures[i].batch > 0 /\ futures[i].batch < futures[j].batch)
              => futures[i].pc = "done"

\* two workers and batches of two: the third item runs in the second batch
\* after both items of the first batch have returned
C10_Witness ==
    /\ config.batch_size = 2
    /\ config.max_workers = 2
    /\ Len(enqueued) = 3
    /\ futures[3].batch = 2
    /\ futures[3].pc = "copy"
    /\ futures[1].pc = "done" /\ futures[2].pc = "done"

----------------------------------------------------------------------------
(* C11 *)

\* the n-th name of a file name: the name itself, then `base (n)ext`
NumberedName(filename, n) ==
    IF n = 0 THEN filename
    ELSE [base |-> filename.base \o " (" \o ToString(n) \o ")", ext |-> filename.ext]

\* the files of a destination folder
FilesOf(destination_folder) == {f \in files : f.folder = destination_folder}

\* the smallest n whose n-th name does not exist in the folder
FirstFree(destination_folder, filename) ==
    CHOOSE n \in 0..Cardinality(files) :
        /\ Join(destination_folder, NumberedName(filename, n)) \notin files
        /\ \A m \in 0..(n - 1) :
              Join(destination_folder, NumberedName(filename, m)) \in files

\* C11: with copy_file calls that do not overlap, the name
\* get_unique_filename returns is the original file name when that does not
\* exist in the destination folder and otherwise `base (n)ext` for the
\* smallest n >= 1 that does not exist; hence the files of a destination
\* folder are always name.ext, name (1).ext, ..., name (k).ext without a gap,
\* one for each successful copy into a folder that started empty when no
\* copy failed
C11_SequentialNaming ==
    /\ \A i \in Ids :
          (futures[i].pc = "copy" /\ futures[i].failed = 0) =>
              futures[i].unique_filename =
                  NumberedName(Basename(Item(i).image_path),
                               FirstFree(Item(i).destination_folder,
                                         Basename(Item(i).image_path)))
    /\ \A F \in {SmallSquare, BestSquare} :
          FilesOf(F) = {Join(F, NumberedName(Basename(PoolPath(1)), n)) :
                           n \in 0..(Cardinality(FilesOf(F)) - 1)}
    /\ (Running = {} /\ \A i \in Ids : futures[i].failed = 0) =>
          Cardinality(FilesOf(BestSquare)) =
              Cardinality({i \in Succeeded : Item(i).destination_folder = BestSquare})

\* three copies of a.jpg into one empty folder, one after the other
C11_Witness ==
    /\ mainpc = "done"
    /\ Len(enqueued) = 3
    /\ Succeeded = {1, 2, 3}
    /\ files = {Join(SmallSquare, [base |-> "a", ext |-> ".jpg"]),
                Join(SmallSquare, [base |-> "a (1)", ext |-> ".jpg"]),
                Join(SmallSquare, [base |-> "a (2)", ext |-> ".jpg"])}

----------------------------------------------------------------------------
(* C12 *)

\* the label the ranges of r = width / height name, each comparison of r
\* with a decimal written over the integers
LabelOfRatio(width, height) ==
    IF 9 * height <= 10 * width /\ 10 * width <= 11 * height THEN "square"
    ELSE IF 11 * height < 10 * width /\ width <= 2 * height THEN "landscape"
    ELSE IF height <= 2 * width /\ 10 * width < 9 * height THEN "portrait"
    ELSE "banner"

\* C12: for every positive width and height get_shape_label returns
\* "square" when 0.9 <= r <= 1.1, "landscape" when 1.1 < r <= 2.0,
\* "portrait" when 0.5 <= r < 0.9 and "banner" otherwise, written as here
C12_ShapeLabels ==
    mainpc = "labelled" =>
        /\ folder[1] \in {"square", "landscape", "portrait", "banner"}
        /\ folder[1] = LabelOfRatio(image.width, image.height)

----------------------------------------------------------------------------
(* C13 *)

\* C13: under every interleaving of the workers no step of a run makes
\* processed_count or error_count smaller
C13_CountersNeverDecrease ==
    [][processed_count' >= processed_count /\ error_count' >= error_count]_vars

----------------------------------------------------------------------------
(* C14 *)

\* the work items whose copy_file is between its first copy attempt and its
\* return
InRetryLoop == {i \in Ids : futures[i].pc \in {"copy", "error_store", "sleep"}}

\* no more than five attempts; five failures end in a False that adds
\* nothing to processed_count and five to error_count
C14_FiveAttempts ==
    /\ \A i \in Ids :
          /\ futures[i].failed <= 5
          /\ futures[i].pc = "copy" => futures[i].failed <= 4
          /\ (futures[i].pc = "done" /\ futures[i].failed = 5) =>
                futures[i].result = "False"
          /\ (futures[i].pc = "done" /\ futures[i].stage = "copy"
                /\ futures[i].result = "False") => futures[i].failed = 5
    /\ (Len(enqueued) = 1 /\ futures[1].pc = "done" /\ futures[1].failed = 5) =>
          /\ processed_count = 0
          /\ error_count = 5

\* the name chosen before the first attempt stays, and a copy attempt
\* writes no other file
C14_SameName ==
    /\ \A i \in InRetryLoop :
          futures'[i].unique_filename = futures[i].unique_filename
    /\ \A f \in files' \ files : \E i \in InRetryLoop : f = DestinationPath(i)

\* C14: with copy_file calls that do not overlap, copy_file makes at most 5
\* copy attempts for a work item; when all 5 fail it returns False, leaves
\* processed_count unchanged and has incremented error_count 5 times, and
\* every attempt uses the destination file name chosen before the first
C14_RetriesExhausted == [](C14_FiveAttempts) /\ [][C14_SameName]_vars

\* a single work item whose five attempts failed, the first of them after
\* it had created the destination file
C14_Witness ==
    /\ mainpc = "done"
    /\ Len(enqueued) = 1
    /\ futures[1].pc = "done" /\ futures[1].result = "False"
    /\ futures[1].failed = 5 /\ futures[1].attempt = 5
    /\ processed_count = 0
    /\ error_count = 5
    /\ DestinationPath(1) \in files

----------------------------------------------------------------------------
(* C15 *)

\* the delays of the claim, in time-units
Schedule == <<1, 2, 4, 8, 16>>

RECURSIVE SumTo(_)
SumTo(n) == IF n = 0 THEN 0 ELSE SumTo(n - 1) + Schedule[n]

\* C15: the delay copy_file sleeps after the i-th failed attempt of a work
\* item (i = 1..5) is min(16, 2^(i-1)), that is 1, 2, 4, 8, 16; no delay
\* exceeds 16, and the delays of one work item add up to 31 at most
C15_BackoffSchedule ==
    \A i \in Ids :
        /\ futures[i].pc = "sleep" =>
              /\ futures[i].attempt \in 1..5
              /\ futures[i].delay = Schedule[futures[i].attempt]
              /\ futures[i].delay = Min(16, 2 ^ (futures[i].attempt - 1))
              /\ futures[i].slept = SumTo(futures[i].attempt - 1)
        /\ futures[i].pc \in {"copy", "error_store", "sleep"} => futures[i].delay <= 16
        /\ futures[i].slept <= 31

\* a work item that used up its retries has slept 1 + 2 + 4 + 8 + 16
C15_Witness ==
    \E i \in Ids :
        /\ futures[i].pc = "done"
        /\ futures[i].attempt = 5
        /\ futures[i].slept = 31

----------------------------------------------------------------------------
(* C16 *)

\* a work item whose os.makedirs failed made no copy attempt and slept no
\* delay, and its copy_file returns False
C16_NoAttempt ==
    /\ \A i \in Ids :
          futures[i].stage = "makedirs" =>
              /\ futures[i].pc \in {"error_store", "done"}
              /\ futures[i].attempt = 0
              /\ futures[i].failed = 0
              /\ futures[i].slept = 0
              /\ futures[i].pc = "done" => futures[i].result = "False"
    /\ (Len(enqueued) = 1 /\ futures[1].pc = "done" /\ futures[1].stage = "makedirs") =>
          /\ error_count = 1
          /\ processed_count = 0
          /\ files = {}

\* the step that follows the failure of os.makedirs counts one error and
\* ends copy_file
C16_CountedOnce ==
    \A i \in Ids :
        (futures[i].stage = "makedirs" /\ futures[i].pc = "error_store"
           /\ futures'[i] # futures[i]) =>
            /\ error_count' = error_count + 1
            /\ processed_count' = processed_count
            /\ futures'[i].pc = "done"
            /\ files' = files /\ dirs' = dirs

\* C16: with copy_file calls that do not overlap, when the destination
\* folder of a work item does not exist and os.makedirs fails, copy_file
\* returns False at once: it increments error_count exactly once, makes no
\* copy attempt, sleeps no delay and leaves processed_count unchanged
C16_MakedirsFailure == [](C16_NoAttempt) /\ [][C16_CountedOnce]_vars

\* the second of two work items could not create its folder after the first
\* was copied
C16_Witness ==
    /\ mainpc = "done"
    /\ Len(enqueued) = 2
    /\ Succeeded = {1}
    /\ futures[2].pc = "done" /\ futures[2].stage = "makedirs"
    /\ futures[2].result = "False"
    /\ Item(2).destination_folder \notin dirs
    /\ error_count = 1
    /\ processed_count = 1

----------------------------------------------------------------------------
(* C17 *)

\* the work items whose source file no longer exists
Vanished == {i \in Ids : Item(i).image_path \notin sources}

\* copy_file of a vanished source makes no attempt and sleeps no delay
C17_NoAttempt ==
    /\ \A i \in Vanished :
          /\ futures[i].pc \in {"none", "submitted", "done"}
          /\ futures[i].attempt = 0
          /\ futures[i].failed = 0
          /\ futures[i].slept = 0
          /\ futures[i].stage = ""
          /\ futures[i].pc = "done" => futures[i].result = "False"
    /\ (Len(enqueued) = 1 /\ Vanished = {1}) =>
          /\ error_count = 0
          /\ processed_count = 0
          /\ files \subseteq {Join(SmallSquare, Basename(PoolPath(1)))}
          /\ dirs = {f.folder : f \in files}

\* the call of copy_file for a vanished source changes no counter, no
\* folder and no file
C17_Frame ==
    \A i \in Vanished :
        futures'[i] # futures[i] =>
            /\ futures'[i].pc \in {"submitted", "done"}
            /\ error_count' = error_count
            /\ processed_count' = processed_count
            /\ dirs' = dirs
            /\ files' = files

\* C17: when the source file of a work item no longer exists, copy_file
\* returns False without a copy attempt, a retry or a sleep, creates no
\* destination folder or file, and leaves processed_count and error_count
\* unchanged
C17_MissingSource == [](C17_NoAttempt) /\ [][C17_Frame]_vars

\* a run whose only work item had vanished: nothing was created or counted
C17_Witness ==
    /\ mainpc = "done"
    /\ Len(enqueued) = 1
    /\ Vanished = {1}
    /\ futures[1].pc = "done" /\ futures[1].result = "False"
    /\ futures[1].runs = 1
    /\ dirs = {} /\ files = {}
    /\ error_count = 0 /\ processed_count = 0

----------------------------------------------------------------------------
(* C18 *)

\* the supported image files under a directory, readable or not
RECURSIVE FilesUnder(_)
FilesUnder(directory) ==
    LET entries == Listing(RealPath(directory))
    IN  {[dir |-> directory, base |-> e.base, ext |-> e.ext] :
            e \in {x \in entries : x.kind = "file" /\ Lower(x.ext) \in supported_extensions}}
        \cup UNION {FilesUnder(Append(directory, EntryName(e))) :
                      e \in {x \in entries : x.kind # "file"}}

\* the directories the walk from a directory fails to read
RECURSIVE FailedDirectories(_)
FailedDirectories(directory) ==
    IF RealPath(directory) \in disk.unreadable THEN {directory}
    ELSE UNION {FailedDirectories(Append(directory, EntryName(e))) :
                  e \in {x \in Listing(RealPath(directory)) : x.kind # "file"}}

\* path is directory or lies under it
Under(path, directory) ==
    Len(directory) <= Len(path) /\ SubSeq(path, 1, Len(directory)) = directory

\* C18: a directory D that cannot be read costs its own subtree only: when
\* the scan is over, error_count holds one error for each such D besides
\* the errors of the metadata, and every supported image file under the
\* input root that is not under such a D has exactly one work item
C18_FailureLocalised ==
    mainpc = "scanned" =>
        LET failed == FailedDirectories(input_directory)
        IN  /\ \A f \in FilesUnder(input_directory) :
                  (\A D \in failed : ~Under(f.dir, D)) =>
                      Cardinality({i \in 1..Len(sort_queue) :
                                      sort_queue[i].image_path = f}) = 1
            /\ error_count = Cardinality(failed)
                  + Cardinality({i \in 1..Len(sort_queue) :
                                    MetadataFails(sort_queue[i].image_path)})

\* the subdirectory cannot be read: one error, and a.jpg of the root, which
\* the walk may come to after the failure, is the only work item
C18_Witness ==
    /\ mainpc = "scanned"
    /\ disk.unreadable = {Append(input_directory, "sub")}
    /\ ~disk.link
    /\ error_count = 1
    /\ Len(sort_queue) = 1
    /\ sort_queue[1].image_path = RootA

----------------------------------------------------------------------------
(* C19 *)

\* C19: when process_queue has returned and error_count is 0, which makes
\* run print the summary of a run without errors, every work item of the
\* queue has been copied: processed_count is the number of enqueued items
C19_ZeroErrorsTruthful ==
    (mainpc = "done" /\ error_count = 0) =>
        /\ processed_count = Len(enqueued)
        /\ Succeeded = Ids

----------------------------------------------------------------------------
(* C20 *)

\* C20: for every queue and every batch_size, 0 and negative numbers
\* included, and with every copy_file returning, the queue becomes empty
\* and process_queue returns
C20_Terminates == <>(mainpc = "done" /\ sort_queue = <<>>)

====
